---- MODULE Spec2Model ----
(***************************************************************************)
(* Streaming relay of src/main.rs: stream_response (plain prompt) and      *)
(* stream_with_files (file-augmented prompt).  One relay task per request  *)
(* sends the generation request to the backend, reads the response body    *)
(* chunk by chunk, splits it into newline-terminated lines, parses each    *)
(* line and hands events to the sender half of the per-request channel.    *)
(*                                                                         *)
(* Representation.                                                         *)
(*   Bytes.  The line splitter only distinguishes the newline byte from    *)
(*   every other byte, and the JSON decoder only sees whole lines, so a    *)
(*   model byte is either the newline byte or one lexeme of a record:      *)
(*     "a"  the member  "response":"a"            (a 1-byte fragment)      *)
(*     "B"  the member  "response":"<block>"      (a BlockLen-byte one)    *)
(*     "[DONE]"  the member  "response":"[DONE]"  (a 6-byte fragment)      *)
(*     "D"  the member  "done":true                                        *)
(*     "x"  the byte 0xFF, which is not valid UTF-8                        *)
(*   The enclosing braces and the commas of a record are not represented.  *)
(*   Text.  A text is a sequence of units; the unit "B" stands for a block *)
(*   of BlockLen bytes, every other unit for one byte (StrLen).            *)
(*   Option<T> is a sequence of length at most one.                        *)
(*   Events.  data is the payload handed to Event::default().data(..);     *)
(*   kind names the send statement that produced it.                       *)
(*   Prompts, file names and file contents are strings; the backquote of   *)
(*   the code fences is written as the quote character '.                  *)
(***************************************************************************)
EXTENDS Integers, Sequences, FiniteSets, TLC

\* Longest backend byte stream explored.
MaxBytes == 6

\* Most passes of the read loop explored with the channel and a client
\* that may disconnect at any time.
MaxPasses == 4

\* Most files of a request explored.
MaxFiles == 2

\* main.rs:300 / main.rs:435  `full_response.len() < 100000`
Threshold == 100000

\* main.rs:246 / main.rs:369  `tokio::sync::mpsc::channel(100)`
QueueCap == 100

\* Length of the block fragment "B": one short of the threshold.
BlockLen == Threshold - 1

NL == "\n"

Bytes == {NL, "a", "B", "D", "x"}

\* Bodies whose fragments are the text [DONE].
SentinelBytes == {NL, "[DONE]", "D"}

Entries == {"plain", "files"}

Statuses == {"200", "404"}

VARIABLES
  entry,          \* which handler spawned the task: "plain" | "files"
  pc,             \* position of the relay task
  status,         \* status code of the backend response ("" before it)
  received,       \* all body bytes returned by response.chunk() so far
  buffer,         \* `buffer`
  full_response,  \* `full_response`
  records,        \* the lines handed to serde_json::from_str, in order
  events,         \* the events handed to tx.send, in order
  cause,          \* why the task left the read loop / returned
  joined,         \* some line was put together from more than one chunk
  nsent,          \* how many of `events` tx.send has returned for
  queue,          \* the events held by the channel
  enqueued,       \* the events tx.send has put into the channel, in order
  delivered,      \* the events the client-facing stream has taken out
  rx,             \* the receiver half: "open" | "dropped"
  files,          \* request.files of stream_with_files
  prompt,         \* request.prompt of stream_with_files
  final_prompt    \* the prompt put into the OllamaRequest

\* The channel between the task and the client-facing stream.
bridge == <<nsent, queue, enqueued, delivered, rx>>

\* The request of stream_with_files and the prompt made from it.
composer == <<files, prompt, final_prompt>>

vars == <<entry, pc, status, received, buffer, full_response, records,
          events, cause, joined, bridge, composer>>

----------------------------------------------------------------------------
(* Pure helpers *)

RECURSIVE StrLen(_)
StrLen(t) ==
  IF t = <<>> THEN 0
  ELSE (IF Head(t) = "B" THEN BlockLen
        ELSE IF Head(t) = "[DONE]" THEN 6 ELSE 1) + StrLen(Tail(t))

IsSuccess(s) == s = "200"

\* String::from_utf8_lossy: an invalid byte becomes U+FFFD (written "?").
Utf8Lossy(bytes) ==
  [k \in 1..Len(bytes) |-> IF bytes[k] = "x" THEN "?" ELSE bytes[k]]

IsWhitespace(c) == c = NL

IsResponseMember(c) == c \in {"a", "B", "[DONE]"}

IsDoneMember(c) == c = "D"

\* serde_json::from_str::<OllamaChunk>(&line).  Whitespace is skipped; an
\* input without any value is "EOF while parsing a value"; any character
\* that is no member of the object is a syntax error; a repeated member is
\* "duplicate field".  Absent members are None.
Parse(line) ==
  LET body == SelectSeq(line, LAMBDA c : ~IsWhitespace(c))
      resp == SelectSeq(body, IsResponseMember)
      done == SelectSeq(body, IsDoneMember)
  IN  IF body = <<>>
        THEN [ok |-> FALSE, err |-> "EOF while parsing a value"]
      ELSE IF \E k \in 1..Len(body) :
                ~IsResponseMember(body[k]) /\ ~IsDoneMember(body[k])
        THEN [ok |-> FALSE, err |-> "expected value"]
      ELSE IF Len(resp) > 1 \/ Len(done) > 1
        THEN [ok |-> FALSE, err |-> "duplicate field"]
      ELSE [ok |-> TRUE,
            response |-> IF resp = <<>> THEN <<>> ELSE << <<resp[1]>> >>,
            done |-> IF done = <<>> THEN <<>> ELSE <<TRUE>>]

DoneEvent == [kind |-> "Done", data |-> <<"[DONE]">>]

TextEvent(t) == [kind |-> "Text", data |-> t]

ParseErrorEvent(e) == [kind |-> "Error", data |-> <<"Error parsing JSON: ", e>>]

SendErrorEvent == [kind |-> "Error", data |-> <<"Error: ", "error sending request">>]

HttpErrorEvent(s, body) ==
  [kind |-> "Error", data |-> <<"Error: HTTP ", s, " - ">> \o body]

----------------------------------------------------------------------------
(* The body of the read loop, main.rs:281-330 (stream_response) and the    *)
(* textually identical main.rs:416-465 (stream_with_files).  st is the     *)
(* task state the loop body works on:                                      *)
(*   [full, events, records, returned]                                     *)

\* Variant: the limit taken inclusively.
UnderLimitInclusive(n) == n <= Threshold

\* main.rs:300  `full_response.len() < 100000`
UnderLimit(n) == n < Threshold

\* Variant: the fragment replaces the text instead of extending it.
PushStrOverwrite(full, frag) == frag

\* main.rs:297  `full_response.push_str(&response_text)`
PushStr(full, frag) == full \o frag

\* main.rs:300-307  payload of the event sent for a fragment
Emission(full, frag) == IF UnderLimit(StrLen(full)) THEN full ELSE frag

\* main.rs:294-308  `if let Some(response_text) = chunk.response { .. }`
OnResponse(chunk, st) ==
  IF chunk.response # <<>>
    THEN LET frag == chunk.response[1]
             full == PushStr(st.full, frag)
         IN  [st EXCEPT !.full = full,
                        !.events = Append(@, TextEvent(Emission(full, frag)))]
    ELSE st

\* Variant: [DONE] is sent but the task does not return.
OnDoneNoReturn(st) ==
  [st EXCEPT !.events = Append(@, DoneEvent)]

\* main.rs:310-314  send [DONE] and return from the task
OnDone(st) ==
  [st EXCEPT !.events = Append(@, DoneEvent), !.returned = TRUE]

\* main.rs:293-315  the Ok arm of the match
OnChunkOk(chunk, st) ==
  LET st1 == OnResponse(chunk, st)
  IN  IF chunk.done # <<>> /\ chunk.done[1] THEN OnDone(st1) ELSE st1

\* Variant: a line that does not parse ends the task.
OnParseErrReturn(e, st) ==
  [st EXCEPT !.events = Append(@, ParseErrorEvent(e)), !.returned = TRUE]

\* main.rs:316-319  the Err arm of the match
OnParseErr(e, st) ==
  [st EXCEPT !.events = Append(@, ParseErrorEvent(e))]

\* main.rs:292-320  parse one line and act on it
OnLine(line, st) ==
  LET st0 == [st EXCEPT !.records = Append(@, line)]
      p   == Parse(line)
  IN  IF p.ok THEN OnChunkOk(p, st0) ELSE OnParseErr(p.err, st0)

\* main.rs:284-323  `let mut start = 0; for i in 0..buffer.len() { .. }`
\* i and start are the 0-based indices of the code; buf[i+1] is buffer[i].
\* The result is the value of start and the task state when the loop ends,
\* or when the task returns from inside it, and the slices buffer[from..to]
\* the loop took on the way, with the length of the buffer.

\* Variant: a newline at start also ends a line.
RECURSIVE ScanLoopEmptyLines(_, _, _, _)
ScanLoopEmptyLines(buf, i, start, st) ==
  IF i >= Len(buf) THEN [start |-> start, st |-> st, slices |-> <<>>]
  ELSE IF buf[i + 1] = NL /\ i >= start
    THEN LET line == Utf8Lossy(SubSeq(buf, start + 1, i))
             st2  == OnLine(line, st)
             here == [from |-> start, to |-> i, len |-> Len(buf)]
         IN  IF st2.returned
               THEN [start |-> i + 1, st |-> st2, slices |-> <<here>>]
               ELSE LET r == ScanLoopEmptyLines(buf, i + 1, i + 1, st2)
                    IN  [r EXCEPT !.slices = <<here>> \o @]
    ELSE ScanLoopEmptyLines(buf, i + 1, start, st)

RECURSIVE ScanLoop(_, _, _, _)
ScanLoop(buf, i, start, st) ==
  IF i >= Len(buf) THEN [start |-> start, st |-> st, slices |-> <<>>]
  ELSE IF buf[i + 1] = NL /\ i > start
    THEN LET line == Utf8Lossy(SubSeq(buf, start + 1, i))
             st2  == OnLine(line, st)
             here == [from |-> start, to |-> i, len |-> Len(buf)]
         IN  IF st2.returned
               THEN [start |-> i + 1, st |-> st2, slices |-> <<here>>]
               ELSE LET r == ScanLoop(buf, i + 1, i + 1, st2)
                    IN  [r EXCEPT !.slices = <<here>> \o @]
    ELSE ScanLoop(buf, i + 1, start, st)

\* Variant: the buffer is cleared after every pass.
KeepRemainingCleared(buf, start) == <<>>

\* main.rs:325-330  keep the remaining data
KeepRemaining(buf, start) ==
  IF start < Len(buf) THEN SubSeq(buf, start + 1, Len(buf)) ELSE <<>>

TaskState ==
  [full |-> full_response, events |-> events, records |-> records,
   returned |-> FALSE]

\* The chunks response.chunk() can return while the stream stays in bounds.
Chunks(n) == UNION {[1..k -> Bytes] : k \in 0..n}

SentinelChunks(n) == UNION {[1..k -> SentinelBytes] : k \in 0..n}

----------------------------------------------------------------------------
(* Actions *)

Init ==
  /\ entry \in Entries
  /\ pc = "request"
  /\ status = ""
  /\ received = <<>>
  /\ buffer = <<>>
  /\ full_response = <<>>
  /\ records = <<>>
  /\ events = <<>>
  /\ cause = ""
  /\ joined = FALSE
  /\ nsent = 0
  /\ queue = <<>>
  /\ enqueued = <<>>
  /\ delivered = <<>>
  /\ rx = "open"
  /\ files = <<>>
  /\ prompt = ""
  /\ final_prompt = ""

\* Variant: the error is sent without the [DONE] after it.
SendErrNoDone ==
  /\ pc = "request"
  /\ events' = <<SendErrorEvent>>
  /\ pc' = "terminated"
  /\ cause' = "send_err"
  /\ UNCHANGED <<entry, status, received, buffer, full_response, records,
                 joined,
                 bridge, composer>>

\* main.rs:266-272 / main.rs:387-393  send() returned Err(e)
SendErr ==
  /\ pc = "request"
  /\ events' = <<SendErrorEvent, DoneEvent>>
  /\ pc' = "terminated"
  /\ cause' = "send_err"
  /\ UNCHANGED <<entry, status, received, buffer, full_response, records,
                 joined,
                 bridge, composer>>

\* main.rs:266-275  stream_response: send() returned Ok(r); the status of r
\* is not looked at and the body is read whatever it is.
SendOkPlain ==
  /\ pc = "request"
  /\ entry = "plain"
  /\ \E s \in Statuses : status' = s
  /\ pc' = "streaming"
  /\ UNCHANGED <<entry, received, buffer, full_response, records, events,
                 cause, joined,
                 bridge, composer>>

\* main.rs:387-411  stream_with_files: send() returned Ok(r); a response
\* with a non-success status goes to the error branch.
SendOkFiles ==
  /\ pc = "request"
  /\ entry = "files"
  /\ \E s \in Statuses :
       /\ status' = s
       /\ pc' = IF IsSuccess(s) THEN "streaming" ELSE "error_body"
  /\ UNCHANGED <<entry, received, buffer, full_response, records, events,
                 cause, joined,
                 bridge, composer>>

\* main.rs:397-407  res.text() gave the body, or failed ("Unknown error")
HttpError ==
  /\ pc = "error_body"
  /\ \E error_text \in {<<"body">>, <<"Unknown error">>} :
       events' = <<HttpErrorEvent(status, error_text), DoneEvent>>
  /\ pc' = "terminated"
  /\ cause' = "http_status"
  /\ UNCHANGED <<entry, status, received, buffer, full_response, records,
                 joined,
                 bridge, composer>>

\* main.rs:279-331 / main.rs:414-466  chunk() returned Ok(Some(chunk)):
\* one pass of the while loop.
ReadFrom(chunks) ==
  /\ pc = "streaming"
  /\ \E chunk \in chunks :
       LET buf == buffer \o chunk
           r   == ScanLoop(buf, 0, 0, TaskState)
       IN  /\ received' = received \o chunk
           /\ full_response' = r.st.full
           /\ events' = r.st.events
           /\ records' = r.st.records
           /\ joined' = (joined \/ (buffer # <<>> /\ r.st.records # records))
           /\ IF r.st.returned
                THEN /\ pc' = "terminated"
                     /\ cause' = "done_record"
                     /\ buffer' = buf
                ELSE /\ pc' = "streaming"
                     /\ cause' = cause
                     /\ buffer' = KeepRemaining(buf, r.start)
  /\ UNCHANGED <<entry, status,
                 bridge, composer>>

\* A pass of the loop for any chunk that keeps the body within MaxBytes.
ReadChunk == ReadFrom(Chunks(MaxBytes - Len(received)))

\* main.rs:279 / main.rs:414  chunk() returned Ok(None): the loop ends
ReadEnd ==
  /\ pc = "streaming"
  /\ pc' = "eof"
  /\ cause' = "eof"
  /\ UNCHANGED <<entry, status, received, buffer, full_response, records,
                 events, joined,
                 bridge, composer>>

\* main.rs:279 / main.rs:414  chunk() returned Err(e): unwrap_or(None)
\* turns it into None and the loop ends
ReadFail ==
  /\ pc = "streaming"
  /\ pc' = "eof"
  /\ cause' = "read_err"
  /\ UNCHANGED <<entry, status, received, buffer, full_response, records,
                 events, joined,
                 bridge, composer>>

\* Variant: the task ends after the loop without sending [DONE].
FinalDoneSilent ==
  /\ pc = "eof"
  /\ pc' = "terminated"
  /\ UNCHANGED <<entry, status, received, buffer, full_response, records,
                 events, cause, joined,
                 bridge, composer>>

\* Variant: what is left in the buffer is parsed as a last line.
FinalDoneFlush ==
  /\ pc = "eof"
  /\ LET st == IF buffer # <<>> THEN OnLine(Utf8Lossy(buffer), TaskState)
                                ELSE TaskState
     IN  /\ records' = st.records
         /\ full_response' = st.full
         /\ events' = IF st.returned THEN st.events
                                     ELSE Append(st.events, DoneEvent)
  /\ pc' = "terminated"
  /\ UNCHANGED <<entry, status, received, buffer, cause, joined,
                 bridge, composer>>

\* Variant: only the plain entry point sends [DONE] after the loop.
FinalDonePlainOnly ==
  /\ pc = "eof"
  /\ events' = IF entry = "plain" THEN Append(events, DoneEvent) ELSE events
  /\ pc' = "terminated"
  /\ UNCHANGED <<entry, status, received, buffer, full_response, records,
                 cause, joined, bridge, composer>>

\* main.rs:333 / main.rs:469  the send of [DONE] after the loop
FinalDone ==
  /\ pc = "eof"
  /\ events' = Append(events, DoneEvent)
  /\ pc' = "terminated"
  /\ UNCHANGED <<entry, status, received, buffer, full_response, records,
                 cause, joined,
                 bridge, composer>>

Next ==
  \/ SendErr
  \/ SendOkPlain
  \/ SendOkFiles
  \/ HttpError
  \/ ReadChunk
  \/ ReadEnd
  \/ ReadFail
  \/ FinalDone

Spec == Init /\ [][Next]_vars

\* A pass of the loop for a chunk of a body that carries the text [DONE].
SentinelRead == ReadFrom(SentinelChunks(MaxBytes - Len(received)))

SentinelNext ==
  \/ SendErr
  \/ SendOkPlain
  \/ SendOkFiles
  \/ HttpError
  \/ SentinelRead
  \/ ReadEnd
  \/ ReadFail
  \/ FinalDone

\* The relay task on bodies over SentinelBytes.
SentinelSpec == Init /\ [][SentinelNext]_vars

\* The runtime keeps polling a task that can make progress, and the client
\* keeps consuming, so the send after the loop completes.
FairSpec == Spec /\ WF_vars(FinalDone)

----------------------------------------------------------------------------
(* The prompt of stream_with_files, main.rs:347-364.                       *)

FileNames == {"a.py", "b"}

FileContents == {"x=1", ""}

Prompts == {"explain", "why?", ""}

FileContexts == [name : FileNames, content : FileContents]

\* Variant: the block ends with one newline.
BlockOneNewline(file) ==
  "File: " \o file.name \o "\n'''\n" \o file.content \o "\n'''\n"

\* main.rs:352  format!("File: {}\n```\n{}\n```\n\n", file.name, file.content)
Block(file) ==
  "File: " \o file.name \o "\n'''\n" \o file.content \o "\n'''\n\n"

\* Variant: each block is put in front of the text made so far.
RECURSIVE ContextPromptReversed(_, _)
ContextPromptReversed(fs, acc) ==
  IF fs = <<>> THEN acc
  ELSE ContextPromptReversed(Tail(fs), Block(Head(fs)) \o acc)

\* main.rs:348-353  `for file in &request.files { context_prompt.push_str(..) }`
\* acc is context_prompt.
RECURSIVE ContextPrompt(_, _)
ContextPrompt(fs, acc) ==
  IF fs = <<>> THEN acc
  ELSE ContextPrompt(Tail(fs), acc \o Block(Head(fs)))

\* main.rs:360-364  final_prompt
FinalPrompt(fs, p) ==
  LET context_prompt == ContextPrompt(fs, "")
  IN  IF context_prompt # ""
        THEN "I have the following files for context:\n\n" \o context_prompt
               \o "\n\nBased on these files, " \o p
        ELSE p

\* main.rs:340-343  a request of stream_with_files has arrived
PromptInit ==
  /\ entry = "files"
  /\ pc = "compose"
  /\ status = ""
  /\ received = <<>>
  /\ buffer = <<>>
  /\ full_response = <<>>
  /\ records = <<>>
  /\ events = <<>>
  /\ cause = ""
  /\ joined = FALSE
  /\ nsent = 0
  /\ queue = <<>>
  /\ enqueued = <<>>
  /\ delivered = <<>>
  /\ rx = "open"
  /\ files \in UNION {[1..k -> FileContexts] : k \in 0..MaxFiles}
  /\ prompt \in Prompts
  /\ final_prompt = ""

\* main.rs:347-378  the handler makes the prompt and spawns the task
Compose ==
  /\ pc = "compose"
  /\ final_prompt' = FinalPrompt(files, prompt)
  /\ pc' = "request"
  /\ UNCHANGED <<entry, status, received, buffer, full_response, records,
                 events, cause, joined, bridge, files, prompt>>

PromptNext == Compose

PromptSpec == PromptInit /\ [][PromptNext]_vars

----------------------------------------------------------------------------
(* The task with its channel and the client-facing stream.                 *)
(*                                                                         *)
(* The task actions above append to `events` the events of the send        *)
(* statements they reach; here each `tx.send(..).await` is a step of its   *)
(* own, taken in the order of `events`, and the task goes on only when no  *)
(* send is pending.  The result of a send is discarded (`let _ =`), so     *)
(* what the task does next does not depend on it.  Every chunk holds one   *)
(* line, so that a pass parses a line and then sends its events.           *)

\* One line per chunk: a fragment record, or a fragment record with done.
BridgeChunks == {<<"a", NL>>, <<"a", "D", NL>>}

\* No send is pending: the task runs.
TaskIdle == nsent = Len(events)

BridgeRead ==
  /\ Len(records) < MaxPasses
  /\ ReadFrom(BridgeChunks)

\* Variant: the send does not wait for room in the channel.
SendEventUnbounded ==
  /\ nsent < Len(events)
  /\ rx = "open"
  /\ queue' = Append(queue, events[nsent + 1])
  /\ enqueued' = Append(enqueued, events[nsent + 1])
  /\ nsent' = nsent + 1
  /\ UNCHANGED <<entry, pc, status, received, buffer, full_response,
                 records, events, cause, joined, delivered, rx, composer>>

\* `tx.send(ev).await` returns Ok: the channel had room, or the send
\* waited until it had.
SendEvent ==
  /\ nsent < Len(events)
  /\ rx = "open"
  /\ Len(queue) < QueueCap
  /\ queue' = Append(queue, events[nsent + 1])
  /\ enqueued' = Append(enqueued, events[nsent + 1])
  /\ nsent' = nsent + 1
  /\ UNCHANGED <<entry, pc, status, received, buffer, full_response,
                 records, events, cause, joined, delivered, rx, composer>>

\* `tx.send(ev).await` returns Err: the receiver is gone.  `let _ =`
\* discards the error and the task goes on.
SendFails ==
  /\ nsent < Len(events)
  /\ rx = "dropped"
  /\ nsent' = nsent + 1
  /\ UNCHANGED <<entry, pc, status, received, buffer, full_response,
                 records, events, cause, joined, queue, enqueued, delivered,
                 rx, composer>>

\* Variant: the stream takes the newest event of the channel.
ConsumeNewest ==
  /\ rx = "open"
  /\ queue # <<>>
  /\ delivered' = Append(delivered, queue[Len(queue)])
  /\ queue' = SubSeq(queue, 1, Len(queue) - 1)
  /\ UNCHANGED <<entry, pc, status, received, buffer, full_response,
                 records, events, cause, joined, nsent, enqueued, rx,
                 composer>>

\* main.rs:336 / main.rs:473  the ReceiverStream of the Sse response takes
\* the next event out of the channel.
Consume ==
  /\ rx = "open"
  /\ queue # <<>>
  /\ delivered' = Append(delivered, Head(queue))
  /\ queue' = Tail(queue)
  /\ UNCHANGED <<entry, pc, status, received, buffer, full_response,
                 records, events, cause, joined, nsent, enqueued, rx,
                 composer>>

\* The client disconnects: the Sse response and with it the receiver is
\* dropped, and the events still in the channel with it.
Disconnect ==
  /\ rx = "open"
  /\ rx' = "dropped"
  /\ queue' = <<>>
  /\ UNCHANGED <<entry, pc, status, received, buffer, full_response,
                 records, events, cause, joined, nsent, enqueued, delivered,
                 composer>>

BridgeNext ==
  \/ TaskIdle /\ SendErr
  \/ TaskIdle /\ SendOkPlain
  \/ TaskIdle /\ SendOkFiles
  \/ TaskIdle /\ HttpError
  \/ TaskIdle /\ BridgeRead
  \/ TaskIdle /\ ReadEnd
  \/ TaskIdle /\ ReadFail
  \/ TaskIdle /\ FinalDone
  \/ SendEvent
  \/ SendFails
  \/ Consume
  \/ Disconnect

BridgeSpec == Init /\ [][BridgeNext]_vars

\* The client-facing stream is polled as long as there is an event for it.
BridgeFairSpec == BridgeSpec /\ WF_vars(Consume)

\* Enough passes to fill the channel and to leave the task a further event.
CapacityRead ==
  /\ Len(records) < QueueCap + 2
  /\ ReadFrom(BridgeChunks)

\* The client disconnects while the channel is full.
DisconnectWhileFull ==
  /\ Len(queue) = QueueCap
  /\ Disconnect

CapacityNext ==
  \/ TaskIdle /\ SendErr
  \/ TaskIdle /\ SendOkPlain
  \/ TaskIdle /\ SendOkFiles
  \/ TaskIdle /\ HttpError
  \/ TaskIdle /\ CapacityRead
  \/ TaskIdle /\ ReadEnd
  \/ TaskIdle /\ FinalDone
  \/ SendEvent
  \/ SendFails
  \/ Consume
  \/ DisconnectWhileFull

\* The task, its channel and a client slow enough for the channel to fill.
CapacitySpec == Init /\ [][CapacityNext]_vars

----------------------------------------------------------------------------
(* Vocabulary of the properties *)

\* The task got a response and read (or is reading) its body.
InStream == pc \in {"streaming", "eof", "terminated"}
            /\ cause \in {"", "done_record", "eof", "read_err"}

NoState == [full |-> <<>>, events |-> <<>>, records |-> <<>>,
            returned |-> FALSE]

\* The whole body received so far, arriving as one chunk.
AsOneChunk == ScanLoop(received, 0, 0, NoState)

\* The newline-terminated segments of a byte sequence, in order, markers
\* excluded; bytes after the last newline belong to no segment.
RECURSIVE Segments(_, _)
Segments(bytes, cur) ==
  IF bytes = <<>> THEN <<>>
  ELSE IF Head(bytes) = NL
    THEN <<cur>> \o Segments(Tail(bytes), <<>>)
    ELSE Segments(Tail(bytes), Append(cur, Head(bytes)))

NonEmpty(seg) == seg # <<>>

\* A sequence of non-empty newline-terminated records (plus, possibly, an
\* unterminated rest): no segment is empty.
WellFormedStream(bytes) ==
  LET segs == Segments(bytes, <<>>)
  IN  \A k \in 1..Len(segs) : NonEmpty(segs[k])

IsDoneRecord(line) ==
  LET p == Parse(line) IN p.ok /\ p.done # <<>> /\ p.done[1]

IsMalformed(line) == ~Parse(line).ok

HasFragment(line) ==
  LET p == Parse(line) IN p.ok /\ p.response # <<>>

\* A sequence of lines up to and including its first done record.
RECURSIVE UpToDone(_)
UpToDone(lines) ==
  IF lines = <<>> THEN <<>>
  ELSE IF IsDoneRecord(Head(lines)) THEN <<Head(lines)>>
  ELSE <<Head(lines)>> \o UpToDone(Tail(lines))

\* The non-empty segments of the body, decoded, up to the first done record.
ExpectedRecords(bytes) ==
  LET segs == SelectSeq(Segments(bytes, <<>>), NonEmpty)
  IN  UpToDone([k \in 1..Len(segs) |-> Utf8Lossy(segs[k])])

\* The events of the read loop: events without the [DONE] sent after it.
LoopEvents ==
  IF pc = "terminated" /\ cause \in {"eof", "read_err"}
    THEN SubSeq(events, 1, Len(events) - 1)
    ELSE events

----------------------------------------------------------------------------
(* Properties *)

\* C1  Line reconstruction: whatever the chunk boundaries were, the lines
\* handed to the parser and the events sent are those of the same bytes
\* arriving as one chunk; and when the bytes are non-empty
\* newline-terminated records, the lines are exactly those records, in
\* order (up to the first done record, where the task returns).
C1_LineReconstruction ==
  InStream =>
    /\ records = AsOneChunk.st.records
    /\ LoopEvents = AsOneChunk.st.events
    /\ WellFormedStream(received) => records = ExpectedRecords(received)

\* A body of three records was received, one of them put together from
\* the bytes of more than one chunk.
C1_Witness ==
  /\ pc = "streaming"
  /\ joined
  /\ WellFormedStream(received)
  /\ Len(records) = 3
  /\ Len(events) = 3

\* C2  Empty-line skipping: an empty segment between newlines gives no
\* record and no event; the records are exactly the non-empty segments
\* between the newline markers, so no record contains a newline byte.
C2_EmptyLinesSkipped ==
  InStream =>
    /\ records = ExpectedRecords(received)
    /\ \A k \in 1..Len(records) :
         \A j \in 1..Len(records[k]) : records[k][j] # NL

\* The fragments of the parsed records, in order.
Fragments ==
  LET withFrag == SelectSeq(records, HasFragment)
  IN  [k \in 1..Len(withFrag) |-> Parse(withFrag[k]).response[1]]

RECURSIVE Concat(_)
Concat(texts) ==
  IF texts = <<>> THEN <<>> ELSE Head(texts) \o Concat(Tail(texts))

\* f1 + ... + fk
Cumulative(k) == Concat(SubSeq(Fragments, 1, k))

IsText(e) == e.kind = "Text"

IsError(e) == e.kind = "Error"

IsDone(e) == e.kind = "Done"

TextEvents == SelectSeq(events, IsText)

\* C3  Monotonic accumulation: the accumulated text is the concatenation
\* of the fragments of the parsed records, in arrival order, whatever
\* malformed records came in between; there is one Text event per
\* fragment-carrying record, and the k-th one carries f1+...+fk or fk.
C3_MonotonicAccumulation ==
  InStream =>
    /\ full_response = Cumulative(Len(Fragments))
    /\ Len(TextEvents) = Len(Fragments)
    /\ \A k \in 1..Len(TextEvents) :
         TextEvents[k].data \in {Cumulative(k), Fragments[k]}

\* Two fragments were accumulated with a malformed record between them.
C3_Witness ==
  /\ pc = "streaming"
  /\ Len(records) = 3
  /\ HasFragment(records[1])
  /\ IsMalformed(records[2])
  /\ HasFragment(records[3])
  /\ Len(full_response) = 2

\* C4  Threshold boundary: the event for a fragment carries the full
\* cumulative text when the cumulative length after appending it is below
\* 100000 and the fragment alone when it is 100000 or more; after an
\* event that carried the fragment alone, every later one does too.
C4_ThresholdBoundary ==
  InStream =>
    /\ Len(TextEvents) = Len(Fragments)
    /\ \A k \in 1..Len(TextEvents) :
         TextEvents[k].data =
           IF StrLen(Cumulative(k)) < 100000 THEN Cumulative(k)
                                             ELSE Fragments[k]
    /\ \A j, k \in 1..Len(TextEvents) :
         (j < k /\ TextEvents[j].data # Cumulative(j))
           => TextEvents[k].data = Fragments[k]

\* The cumulative length reached exactly 100000 with the second fragment
\* and a third fragment was appended to it.
C4_Witness ==
  /\ InStream
  /\ Len(Fragments) = 3
  /\ StrLen(Cumulative(1)) = 99999
  /\ StrLen(Cumulative(2)) = 100000
  /\ TextEvents[1].data = Cumulative(1)
  /\ TextEvents[3].data = Fragments[3]

DoneCount == Cardinality({k \in 1..Len(events) : IsDone(events[k])})

\* C5  Termination on done: [DONE] is sent at most once and is the last
\* event; a done record is the last record parsed, the task has returned
\* after sending [DONE] for it; and a task that has returned parses and
\* sends nothing more.
C5_TerminationOnDone ==
  /\ [](/\ DoneCount <= 1
        /\ \A k \in 1..Len(events) : IsDone(events[k]) => k = Len(events)
        /\ \A k \in 1..Len(records) :
             IsDoneRecord(records[k]) =>
               /\ k = Len(records)
               /\ pc = "terminated"
               /\ cause = "done_record"
               /\ events # <<>>
               /\ events[Len(events)] = DoneEvent)
  /\ [][pc = "terminated" => UNCHANGED <<events, records, received>>]_vars

\* The task returned on a done record while complete records were behind
\* it in the buffer.
C5_Witness ==
  /\ pc = "terminated"
  /\ cause = "done_record"
  /\ Len(SelectSeq(Segments(received, <<>>), NonEmpty)) > Len(records)
  /\ Len(events) = 2

\* C6  End of stream without done: in both entry points, once the body
\* has ended without a done record, the task eventually terminates having
\* sent exactly one [DONE], as its last event.
C6_EndOfStreamDone ==
  \A e \in Entries :
    (pc = "eof" /\ cause = "eof" /\ entry = e)
      ~> (/\ pc = "terminated"
          /\ entry = e
          /\ DoneCount = 1
          /\ events[Len(events)] = DoneEvent)

\* The plain entry point ended a body of fragments without a done record.
C6_Witness ==
  /\ pc = "terminated"
  /\ cause = "eof"
  /\ entry = "plain"
  /\ Len(TextEvents) = 2
  /\ events[Len(events)] = DoneEvent

\* The parsed records without the malformed ones, processed on their own.
RECURSIVE RunRecords(_, _)
RunRecords(lines, st) ==
  IF lines = <<>> \/ st.returned THEN st
  ELSE RunRecords(Tail(lines), OnChunkOk(Parse(Head(lines)), st))

WellFormedRecords == SelectSeq(records, LAMBDA r : ~IsMalformed(r))

\* C7  Parser resilience: each malformed record gives exactly one Error
\* event and nothing else; the accumulated text and the other events are
\* those of the well-formed records alone, and the records behind a
\* malformed one are still parsed.
C7_ParserResilience ==
  InStream =>
    LET alone == RunRecords(WellFormedRecords, NoState)
    IN  /\ Len(SelectSeq(LoopEvents, IsError))
             = Len(records) - Len(WellFormedRecords)
        /\ \A k \in 1..Len(LoopEvents) :
             IsError(LoopEvents[k]) =>
               \E r \in 1..Len(records) :
                 /\ IsMalformed(records[r])
                 /\ LoopEvents[k] = ParseErrorEvent(Parse(records[r]).err)
        /\ SelectSeq(LoopEvents, LAMBDA e : ~IsError(e)) = alone.events
        /\ full_response = alone.full
        /\ WellFormedStream(received) =>
             Len(records) = Len(ExpectedRecords(received))

\* A malformed record was followed by a fragment record and a done record,
\* and both were processed.
C7_Witness ==
  /\ pc = "terminated"
  /\ cause = "done_record"
  /\ Len(records) = 3
  /\ IsMalformed(records[1])
  /\ HasFragment(records[2])
  /\ IsDoneRecord(records[3])
  /\ Len(events) = 3
  /\ IsError(events[1])

\* C8  Non-success backend status: the task sends the HTTP error event
\* and [DONE] and terminates; no byte of the body reaches the splitter.
C8_NonSuccessStatus ==
  (status # "" /\ ~IsSuccess(status)) =>
    /\ pc \in {"error_body", "terminated"}
    /\ received = <<>>
    /\ records = <<>>
    /\ pc = "terminated" =>
         \E body \in {<<"body">>, <<"Unknown error">>} :
           events = <<HttpErrorEvent(status, body), DoneEvent>>

\* C9  Transport failure while streaming: the task sends one Error event
\* and then [DONE]; the failure is never reported as a plain [DONE].
C9_TransportFailure ==
  (pc = "terminated" /\ cause = "read_err") =>
    /\ Len(events) >= 2
    /\ IsError(events[Len(events) - 1])
    /\ events[Len(events)] = DoneEvent

\* C10  Connection failure: the events are the send error and [DONE],
\* the task has terminated and no byte of a body was read.
C10_ConnectionFailure ==
  cause = "send_err" =>
    /\ events = <<SendErrorEvent, DoneEvent>>
    /\ pc = "terminated"
    /\ status = ""
    /\ received = <<>>
    /\ records = <<>>

\* The request of the file-augmented entry point could not be sent.
C10_Witness ==
  /\ cause = "send_err"
  /\ entry = "files"
  /\ pc = "terminated"

\* C11  Unambiguous sentinel: an event whose data is [DONE] is the
\* completion signal: it is sent by a [DONE] send statement, it is the
\* last event and the task has ended; no Text or Error event carries it.
C11_UnambiguousSentinel ==
  \A k \in 1..Len(events) :
    events[k].data = <<"[DONE]">> =>
      /\ IsDone(events[k])
      /\ k = Len(events)
      /\ pc = "terminated"

\* C12  Cancellation on client disconnect: once a send has failed because
\* the receiver is gone, the task stops: it reads no further chunk and
\* parses no further record.
C12_CancellationOnDisconnect ==
  [][nsent > Len(enqueued)
       => (received' = received /\ records' = records)]_vars

IsPrefix(p, q) == Len(p) <= Len(q) /\ p = SubSeq(q, 1, Len(p))

\* C13  Event-bridge ordering: what the client-facing stream has received
\* is a prefix of what was enqueued, which is a prefix of what the task
\* sent, and the channel holds exactly the events between the two; with a
\* client that stays and keeps consuming, everything enqueued is delivered.
C13_BridgeOrdering ==
  /\ [](/\ IsPrefix(delivered, enqueued)
        /\ IsPrefix(enqueued, events)
        /\ Len(enqueued) <= nsent
        /\ rx = "open" => enqueued = delivered \o queue)
  /\ <>[](rx = "dropped" \/ delivered = enqueued)

\* The client received every event of a request of three fragments, the
\* final [DONE] included.
C13_Witness ==
  /\ rx = "open"
  /\ pc = "terminated"
  /\ Len(events) = 4
  /\ delivered = events
  /\ delivered[4] = DoneEvent

\* C14 as stated: while the channel holds 100 events the task enqueues
\* nothing, parses no record and reads no chunk until the consumer has
\* removed an event or is dropped.
C14_SuspendedWhileFull ==
  [][(Len(queue) = QueueCap /\ rx = "open")
       => \/ /\ enqueued' = enqueued
             /\ records' = records
             /\ received' = received
          \/ Len(queue') < QueueCap
          \/ rx' = "dropped"]_vars

\* C14 (amended)  Bounded bridge with backpressure: the channel never
\* holds more than 100 events; a task that has reached a send while the
\* channel holds 100 stays in it, enqueuing nothing, parsing no record and
\* reading no chunk, until the consumer has removed an event or is dropped.
C14_Backpressure ==
  /\ [](Len(queue) <= 100)
  /\ [][(Len(queue) = 100 /\ rx = "open" /\ nsent < Len(events))
          => \/ UNCHANGED <<enqueued, records, received, nsent, events, pc>>
             \/ Len(queue') < 100
             \/ rx' = "dropped"]_vars

\* The channel holds 100 events and the task waits in the send of the
\* next one.
C14_Witness ==
  /\ Len(queue) = 100
  /\ rx = "open"
  /\ nsent < Len(events)
  /\ delivered # <<>>

\* One block per file, in input order.
RECURSIVE JoinBlocks(_)
JoinBlocks(fs) ==
  IF fs = <<>> THEN ""
  ELSE "File: " \o Head(fs).name \o "\n'''\n" \o Head(fs).content
         \o "\n'''\n\n" \o JoinBlocks(Tail(fs))

\* C15  Prompt composition: without files the prompt is dispatched
\* unchanged; otherwise it is the header, one block per file in input
\* order, and "\n\nBased on these files, " followed by the user prompt.
C15_PromptComposition ==
  pc # "compose" =>
    final_prompt =
      IF files = <<>> THEN prompt
      ELSE "I have the following files for context:\n\n" \o JoinBlocks(files)
             \o "\n\nBased on these files, " \o prompt

\* A prompt was composed from two different files.
C15_Witness ==
  /\ pc = "request"
  /\ Len(files) = 2
  /\ files[1] # files[2]
  /\ prompt = "explain"
  /\ final_prompt # prompt

ExampleRequest ==
  /\ pc # "compose"
  /\ files = <<[name |-> "a.py", content |-> "x=1"]>>
  /\ prompt = "explain"

\* C16 as stated: the closing fence of the example is followed by three
\* newline characters.
C16_ThreeNewlines ==
  ExampleRequest =>
    final_prompt = "I have the following files for context:\n\nFile: a.py\n'''\nx=1\n'''\n\n\nBased on these files, explain"

\* C16 (amended)  File composition example: the closing fence is followed
\* by four newline characters, two of the file block and two of the
\* prompt template.
C16_FourNewlines ==
  ExampleRequest =>
    final_prompt = "I have the following files for context:\n\nFile: a.py\n'''\nx=1\n'''\n\n\n\nBased on these files, explain"

\* The example request was composed.
C16_Witness ==
  /\ ExampleRequest
  /\ pc = "request"
  /\ final_prompt # ""

\* The bytes behind the last newline of a byte sequence.
RECURSIVE AfterLastNewline(_)
AfterLastNewline(bytes) ==
  IF \A k \in 1..Len(bytes) : bytes[k] # NL THEN bytes
  ELSE AfterLastNewline(Tail(bytes))

\* C17  PendingBuffer invariant: where the task waits for the next chunk,
\* the buffer is what follows the last newline received: it holds no
\* newline byte and at most one partial record.
C17_PendingBuffer ==
  pc = "streaming" =>
    /\ \A k \in 1..Len(buffer) : buffer[k] # NL
    /\ buffer = AfterLastNewline(received)

Newlines(bytes) == Len(SelectSeq(bytes, LAMBDA b : b = NL))

InBounds(r, len) ==
  /\ \A k \in 1..Len(r.slices) :
       /\ 0 <= r.slices[k].from
       /\ r.slices[k].from < r.slices[k].to
       /\ r.slices[k].to < r.slices[k].len
       /\ r.slices[k].len = len
  /\ 0 <= r.start
  /\ r.start <= len

\* C19  No panic on backend misbehaviour: in every pass of the loop, for
\* every chunk, each line slice has 0 <= start < i < buffer length and the
\* retention slice has start <= buffer length; the task is always at one
\* of its waiting points or has ended, and when it has ended its last
\* event is [DONE].
C19_NoPanic ==
  /\ [][(pc = "streaming" /\ pc' # "eof")
          => LET chunk == SubSeq(received', Len(received) + 1, Len(received'))
                 buf   == buffer \o chunk
             IN  InBounds(ScanLoop(buf, 0, 0, TaskState), Len(buf))]_vars
  /\ [](/\ pc \in {"request", "error_body", "streaming", "eof", "terminated"}
        /\ pc = "terminated" =>
             (events # <<>> /\ events[Len(events)] = DoneEvent))

\* A body of an empty line, a non-UTF-8 record and an unterminated rest
\* was read and the task is waiting for more.
C19_Witness ==
  /\ pc = "streaming"
  /\ received = <<NL, NL, "x", NL, NL, "a">>
  /\ Len(records) = 2
  /\ buffer = <<NL, "a">>

\* C20  Entry-point equivalence on success: after a success status the
\* events of a task are those of the body and of the way it ended, the
\* same for both entry points, the [DONE] after the end of the stream
\* included; only the file-augmented entry point treats a non-success
\* status differently, by not reading the body.
C20_EntryPointEquivalence ==
  /\ (InStream /\ (IsSuccess(status) \/ entry = "plain")) =>
       /\ LoopEvents = AsOneChunk.st.events
       /\ (pc = "terminated" /\ cause \in {"eof", "read_err"}) =>
            events = Append(AsOneChunk.st.events, DoneEvent)
       /\ full_response = AsOneChunk.st.full
  /\ (status # "" /\ ~IsSuccess(status) /\ InStream) => entry = "plain"

\* The file-augmented entry point ended a success response of two
\* fragments at the end of the stream.
C20_Witness ==
  /\ entry = "files"
  /\ status = "200"
  /\ pc = "terminated"
  /\ cause = "eof"
  /\ Len(events) = 3
  /\ events[3] = DoneEvent

====
